---- MODULE Spec2Model ----
(***************************************************************************)
(* The ingestion pipeline of health-auto-export-server: ingestData         *)
(* (controllers/ingester.ts), saveMetrics (controllers/metrics.ts),        *)
(* mapWorkoutData and mapRoute (models/Workout.ts), parseDate (utils.ts),  *)
(* the document store they write to through bulkWrite, and the token       *)
(* middleware (middleware/auth.ts) app.ts mounts in front of the routers.  *)
(* Spec is the ingestion of requests the middleware has passed; SpecGate   *)
(* is the middleware chain on its own.                                     *)
(*                                                                         *)
(* JavaScript values are tagged records: [t |-> "undefined"],              *)
(* [t |-> "number", n |-> 5], [t |-> "NaN"], [t |-> "string", s |-> "x"],  *)
(* [t |-> "date", ms |-> 5], [t |-> "invalid_date"], [t |-> "null"],       *)
(* [t |-> "object", o |-> f] with f a function from the names of the       *)
(* properties the object has to their values (an absent property is a      *)
(* name outside DOMAIN f), and [t |-> "array", items |-> seq].  A number   *)
(* n + h/100 is [t |-> "number", n |-> n, h |-> h].  Epoch times are       *)
(* written in units of 1000 ms so that they fit 32-bit integers.          *)
(***************************************************************************)
EXTENDS Integers, Sequences, FiniteSets, TLC

\* ------------------------------------------------------------------ bounds

\* Longest data array of one metric group in a generated request.
MaxData == 2

\* Longest workouts array in a generated request.
MaxWorkouts == 2

\* ------------------------------------------------------- JavaScript values

Undefined == [t |-> "undefined"]
Null == [t |-> "null"]
NaN == [t |-> "NaN"]
InvalidDate == [t |-> "invalid_date"]
Num(n) == [t |-> "number", n |-> n, h |-> 0]
Obj(o) == [t |-> "object", o |-> o]
Arr(items) == [t |-> "array", items |-> items]
Str(s) == [t |-> "string", s |-> s]
DateOf(ms) == [t |-> "date", ms |-> ms]

\* 2024-01-15T00:00:00Z as an epoch time.
Jan15 == 19737 * 86400

\* The strings that occur as timestamps in the generated requests.
DateStrings ==
  {"2024-01-15", "2024/01/15", "2024-01-15 08:30:00", "1705276800", "0", "not-a-date", ""}

\* Number(s) for the strings above.
StringToNumber(s) ==
  CASE s = "1705276800" -> Num(Jan15)
    [] s \in {"", "0"} -> Num(0)
    [] OTHER -> NaN

\* Date.parse(s) for the strings above, the server running in UTC.
DateParse(s) ==
  CASE s \in {"2024-01-15", "2024/01/15"} -> Num(Jan15)
    [] s = "2024-01-15 08:30:00" -> Num(Jan15 + 30600)
    [] OTHER -> NaN

\* s.includes(ch) for the strings above.
Includes(s, ch) ==
  CASE ch = "-" -> s \in {"2024-01-15", "2024-01-15 08:30:00", "not-a-date"}
    [] ch = "/" -> s = "2024/01/15"
    [] OTHER -> FALSE

\* !v
Falsy(v) ==
  \/ v.t \in {"undefined", "null", "NaN"}
  \/ v.t = "number" /\ v.n = 0 /\ v.h = 0
  \/ v.t = "string" /\ v.s = ""

\* Number(v)
ToNumber(v) ==
  CASE v.t = "number" -> v
    [] v.t = "string" -> StringToNumber(v.s)
    [] v.t = "null" -> Num(0)
    [] OTHER -> NaN

\* new Date(v)
NewDate(v) ==
  LET n == CASE v.t = "number" -> v
             [] v.t = "string" -> DateParse(v.s)
             [] v.t = "date" -> Num(v.ms)
             [] v.t = "null" -> Num(0)
             [] OTHER -> NaN
  IN IF n.t = "number" THEN DateOf(n.n) ELSE InvalidDate

isValidDate(date) == date.t = "date"

parseDate(dateInput) ==
  IF Falsy(dateInput) THEN Null
  ELSE IF dateInput.t = "number" \/ ToNumber(dateInput).t # "NaN"
    THEN LET date == NewDate(ToNumber(dateInput))
         IN IF isValidDate(date) THEN date ELSE Null
  ELSE IF Includes(dateInput.s, "/")
    THEN LET date == NewDate(dateInput)
         IN IF isValidDate(date) THEN date ELSE Null
  ELSE IF Includes(dateInput.s, "-")
    THEN LET date == NewDate(dateInput)
         IN IF isValidDate(date) THEN date ELSE Null
  ELSE Null

\* ------------------------------------------------------------ objects

\* { ...a, ...b } for two property maps
Spread(a, b) ==
  [f \in DOMAIN a \cup DOMAIN b |-> IF f \in DOMAIN b THEN b[f] ELSE a[f]]

\* The property map a without the property f.
Without(a, f) == [g \in DOMAIN a \ {f} |-> a[g]]

\* The own properties { ...v } spreads: none for a value that is no object.
Props(v) == IF v.t = "object" THEN v.o ELSE <<>>

\* v.f for an object v, undefined when the property is absent.
Prop(v, f) == IF f \in DOMAIN v.o THEN v.o[f] ELSE Undefined

RECURSIVE SeqsUpTo(_, _)
\* The sequences over S of length at most n.
SeqsUpTo(S, n) ==
  IF n = 0 THEN {<<>>}
  ELSE LET shorter == SeqsUpTo(S, n - 1)
       IN shorter \cup {Append(q, x) : q \in {p \in shorter : Len(p) = n - 1}, x \in S}


RECURSIVE Concat(_)
\* The concatenation of a sequence of sequences.
Concat(ss) == IF ss = <<>> THEN <<>> ELSE Head(ss) \o Concat(Tail(ss))

\* ------------------------------------------------------ Record Normalizer

\* One raw record of a metric group: the resolved date replaces the raw one
\* and every other property passes through.
mapRecord(measurement) ==
  Obj(Spread(measurement.o, [date |-> parseDate(Prop(measurement, "date"))]))

\* mapMetric(metric): the records of the group whose timestamp resolves.
mapMetric(metric) ==
  LET data == Prop(metric, "data").items
      resolves(m) == parseDate(Prop(m, "date")).t = "date"
  IN [i \in 1..Len(SelectSeq(data, resolves)) |->
        mapRecord(SelectSeq(data, resolves)[i])]

\* ----------------------------------------------------- Workout Normalizer

\* The sub-records of a workout that mapWorkoutData passes to
\* convertMetricDate.
QuantityFields ==
  {"activeEnergyBurned", "distance", "activeEnergy", "totalEnergy", "stepCadence",
   "totalSwimmingStrokeCount", "swimCadence", "speed", "flightsClimbed",
   "temperature", "humidity", "intensity", "elevation"}

convertMetricDate(metric) ==
  IF ~Falsy(metric) /\ ~Falsy(Prop(metric, "date"))
    THEN Obj(Spread(metric.o, [date |-> NewDate(Prop(metric, "date"))]))
    ELSE metric

\* hr => ({ ...hr, date: new Date(hr.date) })
convertHeartRate(hr) == Obj(Spread(hr.o, [date |-> NewDate(Prop(hr, "date"))]))

\* stepCount.map((metric) => convertMetricDate(metric)) when it is an array
convertStepCount(v) ==
  IF v.t = "array"
    THEN Arr([i \in 1..Len(v.items) |-> convertMetricDate(v.items[i])]) ELSE v

\* heartRateData.map(...) and heartRateRecovery.map(...) when it is an array
convertHeartRates(v) ==
  IF v.t = "array"
    THEN Arr([i \in 1..Len(v.items) |-> convertHeartRate(v.items[i])]) ELSE v

\* Math.max(...hrData.map((hr) => hr.Max))
MaxOfMax(items) ==
  IF \E i \in 1..Len(items) : Prop(items[i], "Max").t # "number" THEN NaN
  ELSE LET m == CHOOSE i \in 1..Len(items) :
                  \A j \in 1..Len(items) :
                    Prop(items[j], "Max").n * 100 + Prop(items[j], "Max").h
                      <= Prop(items[i], "Max").n * 100 + Prop(items[i], "Max").h
       IN Prop(items[m], "Max")

RECURSIVE SumAvg(_)
\* hrData.reduce((sum, hr) => sum + hr.Avg, 0), in hundredths
SumAvg(items) ==
  IF items = <<>> THEN 0
  ELSE Prop(Head(items), "Avg").n * 100 + Prop(Head(items), "Avg").h + SumAvg(Tail(items))

\* Number((sum / length).toFixed(2))
MeanOfAvg(items) ==
  IF \E i \in 1..Len(items) : Prop(items[i], "Avg").t # "number" THEN NaN
  ELSE LET c == (2 * SumAvg(items) + Len(items)) \div (2 * Len(items))
       IN [t |-> "number", n |-> c \div 100, h |-> c % 100]

\* The body of mapWorkoutData on the properties other than id: the dates
\* converted, maxHeartRate and avgHeartRate computed when not provided.
convertRest(rest0) ==
  LET rest1 == Spread(rest0, [start |-> NewDate(Prop(Obj(rest0), "start")),
                              end |-> NewDate(Prop(Obj(rest0), "end"))])
      rest2 == [f \in DOMAIN rest1 \cup QuantityFields |->
                  IF f \in QuantityFields
                    THEN convertMetricDate(Prop(Obj(rest1), f))
                    ELSE rest1[f]]
      rest3 == [f \in DOMAIN rest2 |->
                  CASE f = "stepCount" -> convertStepCount(rest2[f])
                    [] f \in {"heartRateData", "heartRateRecovery"} ->
                         convertHeartRates(rest2[f])
                    [] OTHER -> rest2[f]]
      hrData == Prop(Obj(rest3), "heartRateData")
      derive == hrData.t = "array" /\ Len(hrData.items) > 0
      rest4 == IF Falsy(Prop(Obj(rest3), "maxHeartRate")) /\ derive
                 THEN Spread(rest3, [maxHeartRate |-> MaxOfMax(hrData.items)])
                 ELSE rest3
  IN IF Falsy(Prop(Obj(rest4), "avgHeartRate")) /\ derive
       THEN Spread(rest4, [avgHeartRate |-> MeanOfAvg(hrData.items)])
       ELSE rest4

\* const { id, ...rest } = data; ...; return { workoutId: id, ...rest }
mapWorkoutData(data) ==
  Obj(Spread([workoutId |-> Prop(data, "id")], convertRest(Without(data.o, "id"))))

\* loc => ({ ...loc, timestamp: new Date(loc.timestamp) })
convertLocation(loc) ==
  Obj(Spread(loc.o, [timestamp |-> NewDate(Prop(loc, "timestamp"))]))

\* A route record without its locations.
mapRouteNoLocations(data) ==
  Obj([workoutId |-> Prop(data, "id"), locations |-> Arr(<<>>)])

\* { workoutId: data.id, locations: data.route?.map(...) }: locations is
\* undefined when the raw workout has no route.
mapRoute(data) ==
  LET route == Prop(data, "route")
  IN Obj([workoutId |-> Prop(data, "id"),
          locations |-> IF route.t \in {"undefined", "null"} THEN Undefined
                        ELSE Arr([i \in 1..Len(route.items) |->
                                    convertLocation(route.items[i])])])

\* ------------------------------------------------------------- the store

\* Does a stored document satisfy an equality filter?  A property the
\* document lacks compares as undefined.
Matches(doc, filter) ==
  \A f \in DOMAIN filter : (IF f \in DOMAIN doc THEN doc[f] ELSE Undefined) = filter[f]

\* The properties of a map that are written to the store: a property whose
\* value is undefined is not stored.
Stored(map) == [f \in {g \in DOMAIN map : map[g] # Undefined} |-> map[f]]

\* insertOne in place of the upsert: the filter is never consulted.
InsertOne(coll, filter, fields) == Append(coll, Stored(Spread(filter, fields)))

\* updateOne { filter, update: { $set: fields }, upsert: true } on one
\* collection, applied by the store as one atomic step: the first document
\* that matches the filter gets the fields set, and a document made of the
\* filter and the fields is inserted when none matches.
UpdateOneSet(coll, filter, fields) ==
  LET hits == {i \in 1..Len(coll) : Matches(coll[i], filter)}
  IN IF hits = {}
       THEN Append(coll, Stored(Spread(filter, fields)))
       ELSE LET first == CHOOSE i \in hits : \A j \in hits : i <= j
            IN [coll EXCEPT ![first] = Stored(Spread(coll[first], fields))]

\* The same with the matched document replaced by the filter and the fields.
UpdateOneReplace(coll, filter, fields) ==
  LET hits == {i \in 1..Len(coll) : Matches(coll[i], filter)}
  IN IF hits = {}
       THEN Append(coll, Stored(Spread(filter, fields)))
       ELSE LET first == CHOOSE i \in hits : \A j \in hits : i <= j
            IN [coll EXCEPT ![first] = Stored(Spread(filter, fields))]

\* A filter that leaves the source out.
MetricFilterDateOnly(metric) == [date |-> Prop(metric, "date")]

\* The operation saveMetrics builds for one mapped metric.
MetricFilter(metric) ==
  [source |-> Prop(metric, "source"), date |-> Prop(metric, "date")]

ApplyMetric(coll, metric) == UpdateOneSet(coll, MetricFilter(metric), metric.o)

\* The operation saveWorkouts builds for one raw workout.
WorkoutFilter(workout) == [workoutId |-> Prop(workout, "id")]

\* The workout upsert written with $set, as the metric upsert is.
ApplyWorkoutSet(coll, workout) ==
  UpdateOneSet(coll, WorkoutFilter(workout), mapWorkoutData(workout).o)

ApplyWorkout(coll, workout) ==
  UpdateOneReplace(coll, WorkoutFilter(workout), mapWorkoutData(workout).o)

\* ---------------------------------------------------------------- outcomes

Text(s) == [text |-> s]

Outcome(group, ok, field, text) ==
  Obj((group :> Obj(("success" :> ok) @@ (field :> text))))

TypeErrorText(name) ==
  [text |-> "Cannot read properties of undefined", reading |-> name]

DriverErrorText == Text("bulk write failed")

\* A bulk write in flight: the operations the store has not applied yet.
InFlight(ops) == [st |-> "inflight", ops |-> ops]

\* ------------------------------------------------------------- saveMetrics

\* The names of an array of metric groups, in order of first appearance.
GroupNames(metricsData) ==
  {Prop(metricsData[i], "name").s : i \in 1..Len(metricsData)}

\* metricsByType[key]: the mapped records of every group named key.
MetricsByType(metricsData, key) ==
  Concat([i \in 1..Len(metricsData) |->
            IF Prop(metricsData[i], "name").s = key
              THEN mapMetric(metricsData[i])
              ELSE <<>>])

\* saveMetrics up to its await: the outcome it returns at once (undefined
\* when it goes on to await the bulk writes) and the bulk writes it issues.
saveMetricsStart(ingestData) ==
  LET data == Prop(ingestData, "data")
      metricsData == IF data.t = "object" THEN Prop(data, "metrics") ELSE Undefined
  IN IF data.t # "object"
       THEN [res |-> Outcome("metrics", FALSE, "error", TypeErrorText("metrics")),
             bulks |-> <<>>]
     ELSE IF Falsy(metricsData) \/ Len(metricsData.items) = 0
       THEN [res |-> Outcome("metrics", TRUE, "error", Text("No metrics data provided")),
             bulks |-> <<>>]
     ELSE [res |-> Undefined,
           bulks |-> [key \in GroupNames(metricsData.items) |->
                        InFlight(MetricsByType(metricsData.items, key))]]

\* saveMetrics after await Promise.all(saveOperations), given the bulk writes
\* of the call: failure as soon as one has failed, success when all are done.
saveMetricsSettle(ingestData, bulks) ==
  IF \E k \in DOMAIN bulks : bulks[k].st = "failed"
    THEN Outcome("metrics", FALSE, "error", DriverErrorText)
  ELSE IF \A k \in DOMAIN bulks : bulks[k].st = "ok"
    THEN Outcome("metrics", TRUE, "message",
                 [text |-> "metrics saved successfully",
                  count |-> Len(Prop(Prop(ingestData, "data"), "metrics").items)])
  ELSE Undefined

\* ------------------------------------------------------------ saveWorkouts

saveWorkoutsStart(ingestData) ==
  LET data == Prop(ingestData, "data")
      workouts == IF data.t = "object" THEN Prop(data, "workouts") ELSE Undefined
  IN IF data.t # "object"
       THEN [res |-> Outcome("workouts", FALSE, "error", TypeErrorText("workouts")),
             bulk |-> [st |-> "none", ops |-> <<>>]]
     ELSE IF Falsy(workouts) \/ Len(workouts.items) = 0
       THEN [res |-> Outcome("workouts", TRUE, "message", Text("no records")),
             bulk |-> [st |-> "none", ops |-> <<>>]]
     ELSE [res |-> Undefined, bulk |-> InFlight(workouts.items)]

\* Does the raw workout carry a non-empty location sequence?
HasRoute(workout) ==
  Prop(workout, "route").t = "array" /\ Len(Prop(workout, "route").items) > 0

\* A route record for every raw workout, with or without locations.
routeRecordsAll(workouts) == [i \in 1..Len(workouts) |-> mapRoute(workouts[i])]

\* The route records of the raw workouts of a call: mapRoute of each
\* workout that carries locations, in the order of the workouts.
routeRecords(workouts) ==
  [i \in 1..Len(SelectSeq(workouts, HasRoute)) |->
     mapRoute(SelectSeq(workouts, HasRoute)[i])]

saveWorkoutsSettle(ingestData, bulk) ==
  IF bulk.st = "failed"
    THEN Outcome("workouts", FALSE, "error", DriverErrorText)
  ELSE IF bulk.st = "ok"
    THEN Outcome("workouts", TRUE, "message",
                 [text |-> "workouts saved successfully",
                  count |-> Len(Prop(Prop(ingestData, "data"), "workouts").items)])
  ELSE Undefined

\* -------------------------------------------------------------- ingestData

\* ingestResponse with allFailed computed by some() instead of every().
ingestResponseSome(metricsResponse, workoutsResponse) ==
  LET response == Spread(Props(metricsResponse), Props(workoutsResponse))
      hasErrors == \E g \in DOMAIN response : ~response[g].o.success
  IN [status |-> IF hasErrors THEN 500 ELSE 200, body |-> Obj(response)]

\* The response of ingestData once both outcomes are there.
ingestResponse(metricsResponse, workoutsResponse) ==
  LET response == Spread(Props(metricsResponse), Props(workoutsResponse))
      hasErrors == \E g \in DOMAIN response : ~response[g].o.success
      allFailed == \A g \in DOMAIN response : ~response[g].o.success
  IN [status |-> IF allFailed THEN 500 ELSE IF hasErrors THEN 207 ELSE 200,
      body |-> Obj(response)]

\* The response of the catch block of ingestData.
errorResponse(message) ==
  [status |-> 500,
   body |-> Obj([error |-> Text("Failed to process request"), message |-> message])]


\* ------------------------------------------------------------------ inputs

\* The metric kinds of the generated requests: one with a fixed model
\* (MetricName.HEART_RATE) and one that goes through createMetricModel.
Kinds == {"heart_rate", "step_count"}

Measurement(source, date, qty) ==
  Obj([source |-> Str(source), date |-> date, qty |-> Num(qty)])

WithMetadata(measurement, m) == Obj(Spread(measurement.o, [metadata |-> Str(m)]))

\* Two records of one identity in two encodings of the timestamp, the first
\* with a property the second lacks; one of another source; one whose
\* timestamp does not resolve; one at the epoch itself.
RawRecords ==
  {WithMetadata(Measurement("watch", Str("2024-01-15"), 1), "m"),
   Measurement("watch", Num(Jan15), 2),
   Measurement("phone", Str("2024-01-15"), 1),
   Measurement("watch", Str("not-a-date"), 3),
   Measurement("watch", Num(0), 4)}

SameIdentityRecords ==
  {WithMetadata(Measurement("watch", Str("2024-01-15"), 1), "m"),
   Measurement("watch", Num(Jan15), 2)}

MetricGroup(name, data) == Obj([name |-> Str(name), data |-> Arr(data)])

HeartRateSample(avg, max) ==
  Obj([Avg |-> Num(avg), Max |-> Num(max), date |-> Str("2024-01-15"),
       units |-> Str("bpm"), source |-> Str("watch")])

Workout(name, start) ==
  Obj([name |-> Str(name), start |-> start, end |-> Str("2024-01-15 08:30:00"),
       duration |-> Num(30)])

WithId(workout, id) == Obj(Spread(workout.o, [id |-> Str(id)]))

Location(latitude, timestamp) ==
  Obj([latitude |-> Num(latitude), longitude |-> Num(7), timestamp |-> Str(timestamp)])

\* Two workouts of one identifier with different names and different
\* optional properties (one supplies maxHeartRate and a route of two
\* locations, the other only the heart-rate samples), one without identifier
\* that supplies a maxHeartRate and an avgHeartRate of 0 next to its samples,
\* one with an empty identifier, a start that does not parse and an empty
\* route.
RawWorkouts ==
  {Obj(Spread(WithId(Workout("run", Str("2024-01-15")), "w1").o,
              [maxHeartRate |-> Num(150),
               route |-> Arr(<<Location(46, "2024-01-15"),
                               Location(47, "2024-01-15 08:30:00")>>)])),
   Obj(Spread(WithId(Workout("walk", Num(Jan15)), "w1").o,
              [heartRateData |-> Arr(<<HeartRateSample(70, 90), HeartRateSample(74, 95)>>)])),
   Obj(Spread(Workout("swim", Str("2024-01-15")).o,
              [maxHeartRate |-> Num(0), avgHeartRate |-> Num(0),
               heartRateData |-> Arr(<<HeartRateSample(80, 120)>>)])),
   Obj(Spread(WithId(Workout("row", Str("not-a-date")), "").o, [route |-> Arr(<<>>)]))}

SameIdWorkouts == {w \in RawWorkouts : Prop(w, "id") = Str("w1")}

Body(metrics, workouts) ==
  Obj([data |-> Obj([metrics |-> Arr(metrics), workouts |-> Arr(workouts)])])

\* No body at all, a body without data, data without metrics.
PartialBodies ==
  {Undefined,
   Obj(<<>>),
   Obj([data |-> Obj([workouts |-> Arr(<<CHOOSE w \in SameIdWorkouts : TRUE>>)])])}

MetricBatches ==
  {<<MetricGroup(k, d)>> : k \in Kinds, d \in SeqsUpTo(RawRecords, MaxData)}
    \cup {<<MetricGroup(k1, <<r1>>), MetricGroup(k2, <<r2>>)>> :
            k1 \in Kinds, k2 \in Kinds, r1 \in RawRecords, r2 \in RawRecords}

\* The requests of a run with one call.
Bodies ==
  PartialBodies
    \cup {Body(m, <<>>) : m \in MetricBatches \cup {<<>>}}
    \cup {Body(m, w) : m \in {<<>>} \cup {<<MetricGroup("heart_rate", <<r>>)>> :
                                               r \in RawRecords},
                       w \in SeqsUpTo(RawWorkouts, MaxWorkouts)}

\* The requests of a run with two calls: they meet on one metric identity
\* or on one workout identifier.
PairBodies ==
  {Body(<<MetricGroup("heart_rate", d)>>, <<>>) :
     d \in SeqsUpTo(SameIdentityRecords, MaxData) \ {<<>>}}
    \cup {Body(<<>>, <<w>>) : w \in SameIdWorkouts}

Workloads ==
  {<<b>> : b \in Bodies} \cup {<<a, b>> : a \in PairBodies, b \in PairBodies}

\* ------------------------------------------------------- the middleware

\* The routes app.ts mounts.
Routes == {"/api/data", "/api/metrics", "/api/workouts", "/"}

\* The values of the api-key header and of the two tokens of the
\* environment: absent, empty, two keys with the prefix, one without.
Keys == {Undefined, Str(""), Str("sk-read"), Str("sk-write"), Str("write")}

\* token.startsWith('sk-') for the strings above
StartsWithSk(s) == s \in {"sk-read", "sk-write"}

\* A request app.ts has just received.
Arrived(route, apiKey) ==
  [route |-> route, apiKey |-> apiKey, st |-> "arrived", res |-> Undefined,
   handler |-> "none"]

\* A request its middleware has passed on and its router is handling.
Passed(route, apiKey) ==
  [route |-> route, apiKey |-> apiKey, st |-> "done", res |-> Undefined,
   handler |-> IF route = "/api/data" THEN "ingesterRouter" ELSE "metricsRouter"]

\* res.status(401).json({ error: 'Unauthorized: Invalid <scope> token' })
Unauthorized(scope) ==
  [status |-> 401, body |-> Obj([error |-> [text |-> "Unauthorized: Invalid token",
                                            scope |-> scope]])]

\* The test of a token without the comparison with the expected one.
InvalidTokenPrefixOnly(token, expected) ==
  Falsy(token) \/ ~StartsWithSk(token.s)

\* !token || !token.startsWith('sk-') || token !== expected
InvalidToken(token, expected) ==
  Falsy(token) \/ ~StartsWithSk(token.s) \/ token # expected

\* ------------------------------------------------------------------- state

VARIABLES
  requests,      \* the request bodies of the run, one per call
  pc,            \* per call: "pending", "running" (awaiting both saves), "done"
  metricBulks,   \* per call: kind -> the bulk write saveMetrics issued for it
  workoutBulk,   \* per call: the bulk write saveWorkouts issued
  routeBulk,     \* per call: the route records saveWorkouts has for the store
  metricsResponse,   \* per call: what saveMetrics returned, undefined before
  workoutsResponse,  \* per call: what saveWorkouts returned, undefined before
  sent,          \* per call: the response sent, undefined before
  metricStore,   \* kind -> the documents of the kind's collection, in insertion order
  workoutStore,  \* the documents of the workouts collection
  env,           \* process.env: READ_TOKEN and WRITE_TOKEN
  http           \* the request at the middleware chain of the app, with its answer

vars ==
  <<requests, pc, metricBulks, workoutBulk, routeBulk, metricsResponse,
    workoutsResponse, sent, metricStore, workoutStore, env, http>>

\* The state of the middleware chain in front of the routers.
gateVars == <<env, http>>

\* The state of the ingestion handler and of the store.
ingestVars ==
  <<requests, pc, metricBulks, workoutBulk, routeBulk, metricsResponse,
    workoutsResponse, sent, metricStore, workoutStore>>

Calls == DOMAIN requests

Init ==
  /\ requests \in Workloads
  /\ pc = [c \in DOMAIN requests |-> "pending"]
  /\ metricBulks = [c \in DOMAIN requests |-> <<>>]
  /\ workoutBulk = [c \in DOMAIN requests |-> [st |-> "none", ops |-> <<>>]]
  /\ routeBulk = [c \in DOMAIN requests |-> <<>>]
  /\ metricsResponse = [c \in DOMAIN requests |-> Undefined]
  /\ workoutsResponse = [c \in DOMAIN requests |-> Undefined]
  /\ sent = [c \in DOMAIN requests |-> Undefined]
  /\ metricStore = [k \in Kinds |-> <<>>]
  /\ workoutStore = <<>>
  /\ env = [READ_TOKEN |-> Str("sk-read"), WRITE_TOKEN |-> Str("sk-write")]
  /\ http = Passed("/api/data", env.WRITE_TOKEN)

\* ingestData up to await Promise.all: a missing body throws into the catch
\* block; otherwise saveMetrics and saveWorkouts both run up to their awaits.
Receive(c) ==
  /\ pc[c] = "pending"
  /\ IF Falsy(requests[c])
       THEN /\ pc' = [pc EXCEPT ![c] = "done"]
            /\ sent' = [sent EXCEPT ![c] = errorResponse(Text("No data provided"))]
            /\ UNCHANGED <<metricBulks, workoutBulk, routeBulk, metricsResponse,
                           workoutsResponse>>
       ELSE /\ pc' = [pc EXCEPT ![c] = "running"]
            /\ metricBulks' = [metricBulks EXCEPT ![c] = saveMetricsStart(requests[c]).bulks]
            /\ metricsResponse' =
                 [metricsResponse EXCEPT ![c] = saveMetricsStart(requests[c]).res]
            /\ workoutBulk' = [workoutBulk EXCEPT ![c] = saveWorkoutsStart(requests[c]).bulk]
            /\ routeBulk' =
                 [routeBulk EXCEPT ![c] = routeRecords(saveWorkoutsStart(requests[c]).bulk.ops)]
            /\ workoutsResponse' =
                 [workoutsResponse EXCEPT ![c] = saveWorkoutsStart(requests[c]).res]
            /\ UNCHANGED sent
  /\ UNCHANGED <<gateVars, requests, metricStore, workoutStore>>

\* What saveMetrics of call c has returned once its bulk writes are `bulks`.
MetricsReturn(c, bulks) ==
  IF metricsResponse[c] # Undefined THEN metricsResponse[c]
  ELSE saveMetricsSettle(requests[c], bulks)

\* The store applies the next operation of the bulk write of kind k of call c.
ApplyMetricOp(c, k) ==
  /\ k \in DOMAIN metricBulks[c]
  /\ metricBulks[c][k].st = "inflight"
  /\ metricBulks[c][k].ops # <<>>
  /\ metricStore' =
       [metricStore EXCEPT ![k] = ApplyMetric(@, Head(metricBulks[c][k].ops))]
  /\ metricBulks' = [metricBulks EXCEPT ![c][k].ops = Tail(@)]
  /\ UNCHANGED <<gateVars, requests, routeBulk, pc, workoutBulk, metricsResponse, workoutsResponse, sent,
                 workoutStore>>

\* The bulk write of kind k of call c resolves, all its operations applied;
\* saveMetrics returns success when it was the last one.
MetricBulkResolve(c, k) ==
  /\ k \in DOMAIN metricBulks[c]
  /\ metricBulks[c][k].st = "inflight"
  /\ metricBulks[c][k].ops = <<>>
  /\ metricBulks' = [metricBulks EXCEPT ![c][k].st = "ok"]
  /\ metricsResponse' =
       [metricsResponse EXCEPT ![c] = MetricsReturn(c, metricBulks'[c])]
  /\ UNCHANGED <<gateVars, requests, routeBulk, pc, workoutBulk, workoutsResponse, sent, metricStore,
                 workoutStore>>

\* One transaction for the whole call: a rejection aborts every bulk write.
RejectAll(bulks, k) == [j \in DOMAIN bulks |-> [st |-> "failed", ops |-> <<>>]]

\* The bulk writes of call c after the one of kind k has been rejected by the
\* driver: the operations it had not applied are never applied, the other
\* kinds' bulk writes go on.
RejectBulk(bulks, k) == [bulks EXCEPT ![k] = [st |-> "failed", ops |-> <<>>]]

\* The bulk write of kind k of call c fails; saveMetrics returns the failure
\* at once (Promise.all rejects on the first rejection).
MetricBulkReject(c, k) ==
  /\ k \in DOMAIN metricBulks[c]
  /\ metricBulks[c][k].st = "inflight"
  /\ metricBulks' = [metricBulks EXCEPT ![c] = RejectBulk(@, k)]
  /\ metricsResponse' =
       [metricsResponse EXCEPT ![c] = MetricsReturn(c, metricBulks'[c])]
  /\ UNCHANGED <<gateVars, requests, routeBulk, pc, workoutBulk, workoutsResponse, sent, metricStore,
                 workoutStore>>

ApplyWorkoutOp(c) ==
  /\ workoutBulk[c].st = "inflight"
  /\ workoutBulk[c].ops # <<>>
  /\ workoutStore' = ApplyWorkout(workoutStore, Head(workoutBulk[c].ops))
  /\ workoutBulk' = [workoutBulk EXCEPT ![c].ops = Tail(@)]
  /\ UNCHANGED <<gateVars, requests, routeBulk, pc, metricBulks, metricsResponse, workoutsResponse, sent,
                 metricStore>>

WorkoutBulkResolve(c) ==
  /\ workoutBulk[c].st = "inflight"
  /\ workoutBulk[c].ops = <<>>
  /\ workoutBulk' = [workoutBulk EXCEPT ![c].st = "ok"]
  /\ workoutsResponse' =
       [workoutsResponse EXCEPT ![c] = saveWorkoutsSettle(requests[c], workoutBulk'[c])]
  /\ UNCHANGED <<gateVars, requests, routeBulk, pc, metricBulks, metricsResponse, sent, metricStore,
                 workoutStore>>

WorkoutBulkReject(c) ==
  /\ workoutBulk[c].st = "inflight"
  /\ workoutBulk' = [workoutBulk EXCEPT ![c] = [st |-> "failed", ops |-> <<>>]]
  /\ workoutsResponse' =
       [workoutsResponse EXCEPT ![c] = saveWorkoutsSettle(requests[c], workoutBulk'[c])]
  /\ UNCHANGED <<gateVars, requests, routeBulk, pc, metricBulks, metricsResponse, sent, metricStore,
                 workoutStore>>

\* Promise.race in place of Promise.all.
EitherReturned(m, w) == m # Undefined \/ w # Undefined

\* Promise.all([saveMetrics(data), saveWorkouts(data)]) is settled: neither
\* promise rejects, so that is when both have returned.
BothReturned(m, w) == m # Undefined /\ w # Undefined

\* ingestData after the await: merge, pick the status, send.
Respond(c) ==
  /\ pc[c] = "running"
  /\ BothReturned(metricsResponse[c], workoutsResponse[c])
  /\ sent' = [sent EXCEPT ![c] = ingestResponse(metricsResponse[c], workoutsResponse[c])]
  /\ pc' = [pc EXCEPT ![c] = "done"]
  /\ UNCHANGED <<gateVars, requests, routeBulk, metricBulks, workoutBulk, metricsResponse, workoutsResponse,
                 metricStore, workoutStore>>

Next ==
  \/ \E c \in Calls : Receive(c)
  \/ \E c \in Calls, k \in Kinds : ApplyMetricOp(c, k)
  \/ \E c \in Calls, k \in Kinds : MetricBulkResolve(c, k)
  \/ \E c \in Calls, k \in Kinds : MetricBulkReject(c, k)
  \/ \E c \in Calls : ApplyWorkoutOp(c)
  \/ \E c \in Calls : WorkoutBulkResolve(c)
  \/ \E c \in Calls : WorkoutBulkReject(c)
  \/ \E c \in Calls : Respond(c)

Spec == Init /\ [][Next]_vars

\* ------------------------------------------------ the middleware chain

\* Any environment, any request, nothing ingested.
InitGate ==
  /\ env \in [{"READ_TOKEN", "WRITE_TOKEN"} -> Keys]
  /\ http \in {Arrived(route, apiKey) : route \in Routes, apiKey \in Keys}
  /\ requests = <<>>
  /\ pc = <<>>
  /\ metricBulks = <<>>
  /\ workoutBulk = <<>>
  /\ routeBulk = <<>>
  /\ metricsResponse = <<>>
  /\ workoutsResponse = <<>>
  /\ sent = <<>>
  /\ metricStore = [k \in Kinds |-> <<>>]
  /\ workoutStore = <<>>

\* app.use('/api/data', requireWriteAuth, ingesterRouter): the middleware
\* answers 401 or calls next().
requireWriteAuth ==
  /\ http.st = "arrived"
  /\ http.route = "/api/data"
  /\ http' = IF InvalidToken(http.apiKey, env.WRITE_TOKEN)
               THEN [http EXCEPT !.st = "done", !.res = Unauthorized("write")]
               ELSE [http EXCEPT !.st = "next"]
  /\ UNCHANGED <<env, ingestVars>>

\* app.use('/api/metrics', requireReadAuth, metricsRouter) and
\* app.use('/api/workouts', requireReadAuth, workoutsRouter)
requireReadAuth ==
  /\ http.st = "arrived"
  /\ http.route \in {"/api/metrics", "/api/workouts"}
  /\ http' = IF InvalidToken(http.apiKey, env.READ_TOKEN)
               THEN [http EXCEPT !.st = "done", !.res = Unauthorized("read")]
               ELSE [http EXCEPT !.st = "next"]
  /\ UNCHANGED <<env, ingestVars>>

\* next(): the router mounted behind the middleware takes the request.
RouterRuns ==
  /\ http.st = "next"
  /\ http' = [http EXCEPT !.st = "done",
                          !.handler = CASE http.route = "/api/data" -> "ingesterRouter"
                                        [] http.route = "/api/metrics" -> "metricsRouter"
                                        [] OTHER -> "workoutsRouter"]
  /\ UNCHANGED <<env, ingestVars>>

\* app.get('/'), behind no middleware.
Root ==
  /\ http.st = "arrived"
  /\ http.route = "/"
  /\ http' = [http EXCEPT !.st = "done", !.handler = "root",
                          !.res = [status |-> 200,
                                   body |-> Obj([message |-> Text("Hello world!")])]]
  /\ UNCHANGED <<env, ingestVars>>

NextGate ==
  \/ requireWriteAuth
  \/ requireReadAuth
  \/ RouterRuns
  \/ Root

SpecGate == InitGate /\ [][NextGate]_vars


\* ------------------------------------------------------- reading the state

HasData(body) == ~Falsy(body) /\ Prop(body, "data").t = "object"

\* The metric groups and the raw workouts of a request, none when absent.
MetricsOf(body) ==
  IF HasData(body) /\ Prop(Prop(body, "data"), "metrics").t = "array"
    THEN Prop(Prop(body, "data"), "metrics").items ELSE <<>>

WorkoutsOf(body) ==
  IF HasData(body) /\ Prop(Prop(body, "data"), "workouts").t = "array"
    THEN Prop(Prop(body, "data"), "workouts").items ELSE <<>>

MetricsOutcome(c) == metricsResponse[c].o["metrics"].o

WorkoutsOutcome(c) == workoutsResponse[c].o["workouts"].o

SameIdentity(a, b) ==
  /\ "source" \in DOMAIN a /\ "source" \in DOMAIN b /\ a["source"] = b["source"]
  /\ "date" \in DOMAIN a /\ "date" \in DOMAIN b /\ a["date"] = b["date"]

\* ------------------------------------------------------------------ claims

\* C1: a call whose body is present answers 200 when both group outcomes
\* have success = true, 500 when both have success = false and 207 when they
\* differ, and its body is the two group outcomes merged.
C1_StatusFollowsOutcomes ==
  \A c \in Calls :
    (sent[c] # Undefined /\ ~Falsy(requests[c])) =>
      LET oks == {MetricsOutcome(c).success, WorkoutsOutcome(c).success}
      IN /\ sent[c].status =
              (IF oks = {TRUE} THEN 200 ELSE IF oks = {FALSE} THEN 500 ELSE 207)
         /\ sent[c].body = Obj([metrics |-> metricsResponse[c].o["metrics"],
                                workouts |-> workoutsResponse[c].o["workouts"]])

\* C1 witness: a 207 answer with metrics.success = true and
\* workouts.success = false.
C1_Witness ==
  \E c \in Calls :
    /\ sent[c] # Undefined /\ ~Falsy(requests[c])
    /\ sent[c].status = 207
    /\ MetricsOutcome(c).success /\ ~WorkoutsOutcome(c).success

RECURSIVE ApplyAll(_, _)
\* A collection after the operations for the mapped metrics are applied to
\* it in order.
ApplyAll(coll, metrics) ==
  IF metrics = <<>> THEN coll
  ELSE ApplyAll(ApplyMetric(coll, Head(metrics)), Tail(metrics))

\* The metric collections after one run of saveMetrics on a body, alone and
\* from empty collections.
AfterOneRun(body) ==
  [k \in Kinds |-> ApplyAll(<<>>, MetricsByType(MetricsOf(body), k))]

MetricsSaved(c) ==
  metricsResponse[c] # Undefined /\ "message" \in DOMAIN MetricsOutcome(c)

\* C2: when every call received so far carries the same metric batch and
\* saveMetrics has returned success in each of them, the metric collections
\* are those one run of the batch leaves: a second run of the batch adds no
\* document and changes no field.
C2_MetricsIdempotent ==
  LET received == {c \in Calls : pc[c] # "pending"}
  IN (/\ received # {}
      /\ \A c \in received : requests[c] = requests[CHOOSE d \in received : TRUE]
      /\ \A c \in received : MetricsSaved(c))
       => metricStore = AfterOneRun(requests[CHOOSE d \in received : TRUE])

\* C2 witness: the same batch of two records has been saved twice.
C2_Witness ==
  /\ Cardinality(Calls) = 2
  /\ \A c \in Calls : pc[c] = "done" /\ MetricsSaved(c) /\ requests[c] = requests[1]
  /\ Len(MetricsByType(MetricsOf(requests[1]), "heart_rate")) = 2
  /\ Len(metricStore["heart_rate"]) = 1

C3_OnePerIdentity ==
  \A k \in Kinds : \A i, j \in 1..Len(metricStore[k]) :
    SameIdentity(metricStore[k][i], metricStore[k][j]) => i = j

\* The store has applied the operation for `metric` to the collection of
\* kind k: one document has the identity of the metric and carries every
\* value of the metric, and the documents of other identities are as before.
C3_Written(k, metric) ==
  /\ \E i \in 1..Len(metricStore'[k]) :
       /\ SameIdentity(metricStore'[k][i], metric.o)
       /\ \A f \in DOMAIN metric.o : metric.o[f] # Undefined =>
            f \in DOMAIN metricStore'[k][i] /\ metricStore'[k][i][f] = metric.o[f]
  /\ \A i \in 1..Len(metricStore[k]) :
       ~SameIdentity(metricStore[k][i], metric.o) =>
         \E j \in 1..Len(metricStore'[k]) : metricStore'[k][j] = metricStore[k][i]
  /\ \A j \in Kinds \ {k} : metricStore'[j] = metricStore[j]

\* C3: in every state each kind's collection holds at most one document per
\* (source, date), and every operation the store applies leaves the document
\* of its (source, date) carrying the values of that operation, the other
\* documents untouched: the values a document carries are those of the
\* operation applied last for its identity.
C3_LastWriteWins ==
  /\ []C3_OnePerIdentity
  /\ [][\A c \in Calls, k \in Kinds :
          ApplyMetricOp(c, k) => C3_Written(k, Head(metricBulks[c][k].ops))]_vars

\* C3 witness: two calls in flight at once have both written one identity,
\* one of them twice in its batch, and the collection holds one document.
C3_Witness ==
  /\ Cardinality(Calls) = 2
  /\ \A c \in Calls :
       /\ pc[c] = "running"
       /\ MetricsOf(requests[c]) # <<>>
       /\ metricBulks[c]["heart_rate"].ops = <<>>
  /\ \E c \in Calls : Len(MetricsByType(MetricsOf(requests[c]), "heart_rate")) = 2
  /\ Len(metricStore["heart_rate"]) = 1

\* The properties a stored workout may have that the raw workout w gives it.
C4_OwnFields(w) ==
  (DOMAIN w.o \ {"id"}) \cup {"workoutId"}
    \cup (IF "heartRateData" \in DOMAIN w.o THEN {"maxHeartRate", "avgHeartRate"} ELSE {})

\* C4: every workout operation the store applies, in any interleaving of the
\* calls, leaves exactly one document with the workout's identifier, and
\* that document has the name of the operation's workout and no property
\* that this workout does not give it (none left from another call).
C4_WorkoutLastWriteWins ==
  [][\A c \in Calls :
       (ApplyWorkoutOp(c) /\ ~Falsy(Prop(Head(workoutBulk[c].ops), "id"))) =>
         LET w == Head(workoutBulk[c].ops)
             hits == {i \in 1..Len(workoutStore') :
                        Matches(workoutStore'[i], [workoutId |-> Prop(w, "id")])}
         IN /\ Cardinality(hits) = 1
            /\ \A i \in hits :
                 /\ workoutStore'[i]["name"] = Prop(w, "name")
                 /\ DOMAIN workoutStore'[i] \subseteq C4_OwnFields(w)
                 /\ \A f \in {"duration", "maxHeartRate"} \cap DOMAIN w.o :
                      workoutStore'[i][f] = w.o[f]]_vars

\* C4 witness: two calls in flight at once have both upserted the same
\* workoutId with different names; one document is stored.
C4_Witness ==
  /\ Cardinality(Calls) = 2
  /\ \A c \in Calls :
       /\ pc[c] = "running"
       /\ Len(WorkoutsOf(requests[c])) = 1
       /\ workoutBulk[c].st = "inflight" /\ workoutBulk[c].ops = <<>>
  /\ Prop(WorkoutsOf(requests[1])[1], "id") = Prop(WorkoutsOf(requests[2])[1], "id")
  /\ Prop(WorkoutsOf(requests[1])[1], "name") # Prop(WorkoutsOf(requests[2])[1], "name")
  /\ Len(workoutStore) = 1

\* Every kind of the request has its bulk write issued, and a bulk write in
\* flight with operations left can have the next one applied.
C5_AllIssued ==
  \A c \in Calls :
    (pc[c] # "pending" /\ MetricsOf(requests[c]) # <<>>) =>
      /\ DOMAIN metricBulks[c] = GroupNames(MetricsOf(requests[c]))
      /\ \A k \in DOMAIN metricBulks[c] :
           (metricBulks[c][k].st = "inflight" /\ metricBulks[c][k].ops # <<>>) =>
             ENABLED ApplyMetricOp(c, k)

\* C5: saveMetrics issues the bulk write of every kind of the request; when
\* the bulk write of one kind fails, the bulk writes of the other kinds of
\* the call stay as they are (in flight ones stay in flight and can go on)
\* and no stored document changes.
C5_KindsIndependent ==
  /\ []C5_AllIssued
  /\ [][\A c \in Calls, k \in Kinds :
          MetricBulkReject(c, k) =>
            /\ \A j \in DOMAIN metricBulks[c] \ {k} : metricBulks'[c][j] = metricBulks[c][j]
            /\ metricStore' = metricStore]_vars

\* C5 witness: one kind's bulk write has failed and saveMetrics has returned
\* the failure while another kind's bulk write of the call is in flight with
\* an operation still to apply.
C5_Witness ==
  \E c \in Calls : \E k, j \in DOMAIN metricBulks[c] :
    /\ metricBulks[c][k].st = "failed"
    /\ metricsResponse[c] # Undefined /\ ~MetricsOutcome(c).success
    /\ metricBulks[c][j].st = "inflight" /\ metricBulks[c][j].ops # <<>>


\* C7: a call whose body or whose data payload is missing starts no bulk
\* write and answers 500 with a body of exactly error and message, without
\* any group outcome.
C7_StructuralFailsFast ==
  \A c \in Calls :
    (~HasData(requests[c]) /\ pc[c] # "pending") =>
      /\ metricBulks[c] = <<>> /\ workoutBulk[c].st = "none"
      /\ pc[c] = "done" =>
           /\ sent[c].status = 500
           /\ DOMAIN sent[c].body.o = {"error", "message"}

\* C8: for a request whose metrics array is absent or empty, saveMetrics
\* issues no bulk write and returns success = true with the text in the
\* message field.
C8_EmptyMetricsMessage ==
  \A c \in Calls :
    (HasData(requests[c]) /\ MetricsOf(requests[c]) = <<>> /\ pc[c] # "pending") =>
      /\ metricBulks[c] = <<>>
      /\ MetricsOutcome(c).success
      /\ DOMAIN MetricsOutcome(c) = {"success", "message"}

\* C9: no stored workout lacks a workoutId or has an empty one: a raw
\* workout without identifier is never stored.
C9_NoWorkoutWithoutId ==
  \A i \in 1..Len(workoutStore) :
    "workoutId" \in DOMAIN workoutStore[i] /\ ~Falsy(workoutStore[i]["workoutId"])

\* C10: every stored metric document has exactly the properties of one of
\* the records written for its identity: no property of an earlier write
\* that the later write lacks remains.
C10_FullReplace ==
  \A k \in Kinds : \A i \in 1..Len(metricStore[k]) :
    \E c \in Calls :
      \E n \in 1..Len(MetricsByType(MetricsOf(requests[c]), k)) :
        metricStore[k][i] = Stored(MetricsByType(MetricsOf(requests[c]), k)[n].o)

\* The samples of a raw workout's heartRateData, none when it has none.
C11_Samples(w) ==
  IF Prop(w, "heartRateData").t = "array" THEN Prop(w, "heartRateData").items ELSE <<>>

\* C11: every workout operation the store applies leaves the written
\* document with the maxHeartRate and the avgHeartRate the raw workout
\* supplies, whatever their value (0 included); a field the raw workout does
\* not supply is the maximum of the samples' Max, resp. the mean of the
\* samples' Avg rounded to 2 decimals, when there are samples, and is absent
\* otherwise.
C11_SuppliedHeartRateKept ==
  [][\A c \in Calls :
       ApplyWorkoutOp(c) =>
         LET w == Head(workoutBulk[c].ops)
             hr == C11_Samples(w)
             derived == [maxHeartRate |-> MaxOfMax(hr), avgHeartRate |-> MeanOfAvg(hr)]
         IN \A i \in 1..Len(workoutStore') :
              Matches(workoutStore'[i], WorkoutFilter(w)) =>
                \A f \in {"maxHeartRate", "avgHeartRate"} :
                  IF f \in DOMAIN w.o
                    THEN f \in DOMAIN workoutStore'[i] /\ workoutStore'[i][f] = w.o[f]
                  ELSE IF hr # <<>>
                    THEN f \in DOMAIN workoutStore'[i] /\ workoutStore'[i][f] = derived[f]
                  ELSE f \notin DOMAIN workoutStore'[i]]_vars

\* The raw workouts of a sequence whose location sequence is non-empty.
C12_WithLocations(ws) ==
  {i \in 1..Len(ws) :
     Prop(ws[i], "route").t = "array" /\ Prop(ws[i], "route").items # <<>>}

C13_Resolvable(date) ==
  \/ date.t = "number"
  \/ date.t = "string"
       /\ date.s \in {"1705276800", "0", "2024/01/15", "2024-01-15", "2024-01-15 08:30:00"}

\* The raw records of the groups named k whose timestamp is one of those.
C13_Kept(metricsData, k) ==
  LET resolvable(m) == C13_Resolvable(Prop(m, "date"))
  IN Concat([i \in 1..Len(metricsData) |->
               IF Prop(metricsData[i], "name").s = k
                 THEN SelectSeq(Prop(metricsData[i], "data").items, resolvable)
                 ELSE <<>>])

\* C13: when a call is received, the operations of each kind's bulk write
\* are the raw records of the kind whose timestamp is a numeric epoch (0
\* included) or a date in one of the three forms, each with a valid Date,
\* and no operation is made for a record with another timestamp: parseDate
\* resolves the former, returns null for the latter and never returns an
\* invalid Date.
C13_ParseDateResolves ==
  [][\A c \in Calls :
       Receive(c) =>
         \A k \in DOMAIN metricBulks'[c] :
           LET ops == metricBulks'[c][k].ops
               kept == C13_Kept(MetricsOf(requests[c]), k)
           IN /\ Len(ops) = Len(kept)
              /\ \A n \in 1..Len(ops) :
                   /\ n <= Len(kept)
                   /\ Prop(ops[n], "date").t = "date"
                   /\ Without(ops[n].o, "date") = Without(kept[n].o, "date")]_vars

\* The values of the date-bearing fields of a stored workout: start, end,
\* the date of each quantity sub-record, of each heart-rate sample and of
\* each step-count entry.
C14_Dates(doc) ==
  {doc[f] : f \in {"start", "end"} \cap DOMAIN doc}
    \cup {Prop(doc[f], "date") :
            f \in {g \in QuantityFields \cap DOMAIN doc : doc[g].t = "object"}}
    \cup UNION {{Prop(doc[f].items[i], "date") : i \in 1..Len(doc[f].items)} :
                 f \in {g \in {"heartRateData", "heartRateRecovery", "stepCount"}
                              \cap DOMAIN doc : doc[g].t = "array"}}

\* C14: no stored workout carries an invalid Date in a date-bearing field:
\* a timestamp of a raw workout that does not parse never reaches the store
\* as an invalid Date.
C14_NoInvalidDateStored ==
  \A i \in 1..Len(workoutStore) : InvalidDate \notin C14_Dates(workoutStore[i])

\* The outcome a saveMetrics result reports for kind k: the kind's own
\* entry when the result has one, the entry of the group otherwise.
C16_OutcomeOf(response, k) ==
  IF k \in DOMAIN response.o THEN response.o[k].o ELSE response.o["metrics"].o

\* C16: when the bulk write of kind k of a call fails, saveMetrics returns
\* an outcome (it does not throw) that reports failure with the driver's
\* message for kind k and reports success for every other kind of the call
\* whose bulk write has succeeded.
C16_FailureStaysWithKind ==
  [][\A c \in Calls, k \in Kinds :
       MetricBulkReject(c, k) =>
         /\ metricsResponse'[c].t = "object"
         /\ ~C16_OutcomeOf(metricsResponse'[c], k).success
         /\ C16_OutcomeOf(metricsResponse'[c], k).error = DriverErrorText
         /\ \A j \in DOMAIN metricBulks[c] \ {k} :
              metricBulks[c][j].st = "ok" =>
                C16_OutcomeOf(metricsResponse'[c], j).success]_vars

\* The api-key header of the request is present, starts with 'sk-' and
\* equals the given token of the environment.
C15_Holds(token) ==
  /\ http.apiKey.t = "string"
  /\ http.apiKey.s \in {"sk-read", "sk-write"}
  /\ http.apiKey = token

\* C15: the ingestion router takes a request only if its api-key header is
\* present, starts with 'sk-' and equals WRITE_TOKEN, a query router only if
\* it likewise equals READ_TOKEN; a request to one of these routes that the
\* middleware has not passed is answered 401 and no router takes it, so a
\* read token that differs from the write token never reaches ingestion.
C15_GatedByScope ==
  /\ (http.st \in {"next", "done"} /\ http.route = "/api/data") =>
       IF C15_Holds(env.WRITE_TOKEN)
         THEN http.res = Undefined /\ http.handler \in {"none", "ingesterRouter"}
         ELSE /\ http.st = "done" /\ http.handler = "none"
              /\ http.res # Undefined /\ http.res.status = 401
  /\ (http.st \in {"next", "done"} /\ http.route \in {"/api/metrics", "/api/workouts"}) =>
       IF C15_Holds(env.READ_TOKEN)
         THEN http.res = Undefined
                /\ http.handler \in {"none", "metricsRouter", "workoutsRouter"}
         ELSE /\ http.st = "done" /\ http.handler = "none"
              /\ http.res # Undefined /\ http.res.status = 401
  /\ http.handler = "none" \/ http.st = "done"

\* C15 witness: a request to the ingestion route carrying the read token,
\* which differs from the write token, has been answered 401.
C15_Witness ==
  /\ http.route = "/api/data"
  /\ http.st = "done"
  /\ http.apiKey = env.READ_TOKEN /\ http.apiKey = Str("sk-read")
  /\ env.WRITE_TOKEN = Str("sk-write")
  /\ http.res # Undefined /\ http.res.status = 401

====
